---- MODULE Spec2Model ----
(***************************************************************************)
(* Phasic Policy Gradient agent (tnfru/PPG): the training scheduler        *)
(* Agent.learn of ppg/agent.py driven by run_timesteps of rollout.py, the  *)
(* earlier single-file Agent of agent.py, and the gradient-accumulation    *)
(* helper of utils/network_utils.py.                                       *)
(*                                                                         *)
(* Network parameters are abstracted to the number of optimizer steps      *)
(* applied to them; real numbers are exact rationals <<num, den>>.         *)
(***************************************************************************)
EXTENDS Integers, Sequences, FiniteSets, TLC

\* ------------------------------------------------------------------ bounds
MaxTrainIter == 2       \* train_iterations ranges over 1..MaxTrainIter
MaxAuxFreq == 3         \* aux_freq ranges over 1..MaxAuxFreq
MaxEpisodeLen == 2      \* the environment ends an episode after at most this many steps
NumTimesteps == 7       \* num_timesteps handed to run_timesteps
RolloutLength == 2      \* config['rollout_length']
BatchSize == 2          \* config['batch_size'] of the PPG agent
AuxIterations == 1      \* config['aux_iterations'] of the PPG agent
MaxCpTrainIter == 3     \* train_iterations of the single-file Agent ranges over 1..MaxCpTrainIter
MaxCpBatches == 2       \* mini-batches per loader of the single-file Agent: 1..MaxCpBatches
MaxKl == 2              \* a KL estimate is one of 0..MaxKl (in units of the ceiling's scale)
MaxCpEpochs == 34       \* learn() of the single-file Agent is called until this many epochs ran
MaxAccBatch == 3        \* batch_size of the accumulated gradient step: 1..MaxAccBatch
MaxAccTarget == 4       \* target_batch_size: 1..MaxAccTarget
MaxAccSamples == 5      \* samples of an epoch: 1..MaxAccSamples
MaxAccEpochs == 2       \* epochs run through do_accumulated_gradient_step

\* ------------------------------------------------------ program constants
CpAuxFreq == 32         \* self.aux_freq = 32

\* ------------------------------------------------------------- arithmetic
Max(a, b) == IF a >= b THEN a ELSE b

CeilDiv(a, b) == (a + b - 1) \div b

RECURSIVE Gcd(_, _)
Gcd(a, b) == IF b = 0 THEN a ELSE Gcd(b, a % b)

\* a rational <<n, d>> with d > 0, in lowest terms
RNorm(r) == LET g == Gcd(r[1], r[2]) IN IF g = 0 THEN <<0, 1>> ELSE <<r[1] \div g, r[2] \div g>>

RMul(a, b) == RNorm(<<a[1] * b[1], a[2] * b[2]>>)

RLeq(a, b) == a[1] * b[2] <= b[1] * a[2]

RMax(a, b) == IF RLeq(b, a) THEN a ELSE b

RAdd(a, b) == RNorm(<<a[1] * b[2] + b[1] * a[2], a[2] * b[2]>>)

RSub(a, b) == RNorm(<<a[1] * b[2] - b[1] * a[2], a[2] * b[2]>>)

RInt(x) == <<x, 1>>

\* ----------------------------------------------------------------- state
VARIABLES
    cfg,            \* Agent.config of the PPG agent
    pc,             \* position in run_timesteps / run_episode / Agent.learn
    steps,          \* Agent.steps, the counter compared with aux_freq
    entropy_coeff,  \* Agent.entropy_coeff
    trajectory,     \* Agent.trajectory
    actor,          \* optimizer steps applied to Agent.actor
    critic,         \* optimizer steps applied to Agent.critic
    checkpoint,     \* what save_model last wrote: <<actor, critic>>, or <<>>
    steps_done,     \* run_timesteps' steps_done
    rewards,        \* run_episode's rewards list
    done,           \* run_episode's done
    lives,          \* run_episode's lives
    epoch,          \* loop index of ppo_training_phase / aux_training_phase
    learnCalls,     \* history: learn() calls started so far
    auxRan,         \* history: aux_training_phase ran in the current learn() call
    stepsAtEntry,   \* history: Agent.steps when the current learn() call began
    entropyAtEntry, \* history: entropy_coeff when the current learn() call began
    entropyWrites,  \* history: assignments to entropy_coeff in the current learn() call
    \* the single-file Agent of agent.py
    cp_cfg,         \* its configuration: train_iterations, aux_iterations, kl_max, num_batches
    cp_pc,          \* position in learn / train_ppo_epoch / train_aux_epoch
    cp_steps,       \* self.steps
    cp_decays,      \* entropy_coeff = config['entropy_coeff'] * entropy_decay ^ cp_decays
    cp_actor,       \* optimizer steps applied to self.actor
    cp_critic,      \* optimizer steps applied to self.critic
    cp_epoch,       \* loop index of learn's for loops
    cp_batch,       \* mini-batches the current loader has yielded and that were trained on
    cp_is_aux,      \* self.trajectory.is_aux_epoch
    cp_mb,          \* history: the mini-batch in hand
    cp_hist,        \* history: the last two updates and the epochs of the current learn()
    \* do_accumulated_gradient_step and the epoch loop calling it
    acc_cfg,        \* batch_size, target_batch_size and the number of samples of the dataset
    acc_pc,         \* "batch": in the epoch's loop, "epoch_done", "failed": an exception left the call
    acc_epoch,      \* epochs completed
    acc_idx,        \* batch_idx of the next call
    acc_grad,       \* the mini-batches <<epoch, batch_idx>> whose gradients are summed in .grad
    acc_opt,        \* optimizer steps applied
    acc_stepped,    \* history: optimizer steps of each call of the current epoch
    acc_last,       \* history: the last call: batch_idx, mini-batches since the last step, steps,
                    \* and the mini-batches whose gradients its step applied
    acc_vetoed,     \* history: the mini-batches <<epoch, batch_idx>> the trust-region guard vetoed
    \* the computations on the buffer's contents
    gae,            \* a filled buffer of num_envs interleaved environments and its advantages
    pr,             \* the ParticleReward object, its last input and its last output
    gs,             \* a network and its optimizer under direct gradient steps
    stats           \* the running estimates of a ParticleReward and the samples it has seen

ppgVars == <<cfg, pc, steps, entropy_coeff, trajectory, actor, critic, checkpoint,
             steps_done, rewards, done, lives, epoch, learnCalls, auxRan,
             stepsAtEntry, entropyAtEntry, entropyWrites>>

cpVars == <<cp_cfg, cp_pc, cp_steps, cp_decays, cp_actor, cp_critic, cp_epoch, cp_batch,
            cp_is_aux, cp_mb, cp_hist>>

accVars == <<acc_cfg, acc_pc, acc_epoch, acc_idx, acc_grad, acc_opt, acc_stepped, acc_last,
             acc_vetoed>>

fnVars == <<gae, pr, gs, stats>>

vars == <<ppgVars, cpVars, accVars, fnVars>>

\* ---------------------------------------------------------- configuration
\* entropy_coeff, entropy_decay, entropy_min triples
EntropyConfigs ==
    { [entropy_coeff |-> <<1, 1>>, entropy_decay |-> <<1, 2>>, entropy_min |-> <<1, 4>>],
      [entropy_coeff |-> <<1, 100>>, entropy_decay |-> <<9, 10>>, entropy_min |-> <<1, 100>>],
      [entropy_coeff |-> <<1, 8>>, entropy_decay |-> <<1, 1>>, entropy_min |-> <<1, 2>>] }

Configs ==
    { [train_iterations |-> ti, aux_freq |-> af, aux_iterations |-> AuxIterations,
       rollout_length |-> RolloutLength, batch_size |-> BatchSize,
       target_batch_size |-> BatchSize,
       entropy_coeff |-> e.entropy_coeff, entropy_decay |-> e.entropy_decay,
       entropy_min |-> e.entropy_min, is_pretrain |-> p] :
        ti \in 1..MaxTrainIter, af \in 1..MaxAuxFreq, e \in EntropyConfigs, p \in BOOLEAN }

\* ------------------------------------------------------------- trajectory
\* Trajectory(config): an empty buffer
NewTrajectory == [recs |-> <<>>, n_rewards |-> 0, adv_calls |-> 0, is_aux_epoch |-> FALSE,
                  episodes |-> 0]

\* len(trajectory)
TrajLen(t) == Len(t.recs)

\* the record append_step stores: the statistics of get_action are those of the
\* actor parameters in effect (ver); rollout and rounds are history fields
StepRecord(ver, d, k) == [ver |-> ver, done |-> d, rollout |-> k, rounds |-> 0]

\* get_loader(dset=self.trajectory): the loader samples every stored record
Sampled(t) == [t EXCEPT !.recs = [i \in 1..Len(t.recs) |-> [t.recs[i] EXCEPT !.rounds = @ + 1]]]

\* len(loader), drop_last=False
NumBatches(n, bs) == CeilDiv(n, bs)

\* trajectory.append_rewards(rewards) is handed one reward per step stored since
\* the last fill
FillMatches(t, rs) == Len(rs) = TrajLen(t) - t.n_rewards

\* trajectory.append_rewards(rewards): the rewards are stored behind those of the
\* earlier episodes
AppendRewards(t, rs) == [t EXCEPT !.n_rewards = @ + Len(rs)]

\* calc_pretrain_rewards: state_set = agent.trajectory.next_states, one particle
\* reward per stored next state, agent.trajectory.rewards = particle_rewards
CalcPretrainRewards(t) == [t EXCEPT !.n_rewards = TrajLen(t)]

\* trajectory.calc_advantages(...): adv_calls counts the invocations since the
\* buffer was created
CalcAdvantages(t) == [t EXCEPT !.adv_calls = @ + 1]

\* a forget that leaves the buffer as it is
ForgetNothing(t) == t

\* a forget that clears the reward fill and the flags and keeps the stored steps
ForgetDerivedOnly(t) == [NewTrajectory EXCEPT !.recs = t.recs]

\* Agent.forget: self.trajectory = Trajectory(self.config)
Forget(t) == NewTrajectory

\* ------------------------------------------------------------------- Init
\* no mini-batch in hand
NoBatch == [draw |-> 0, phase |-> "none", is_aux |-> FALSE, kl |-> 0, kl_exceeded |-> <<>>,
            actor_before |-> 0, actor_steps |-> 0, critic_before |-> 0, critic_steps |-> 0]

NoUpdate == <<"none", 0>>

\* no buffer handed to calc_advantages
GaeIdle == [pc |-> "idle", cfg |-> <<>>, num_envs |-> 1, recs |-> <<>>, last_state_vals |-> <<>>,
            adv |-> <<>>, ret |-> <<>>]

\* no ParticleReward in use
PrNone == [pc |-> "idle", top_k |-> 1, mean |-> "zero", samples_done |-> 0, calls |-> 0,
           normalize |-> TRUE, particle_volumes |-> <<>>, knn |-> <<>>, out |-> <<>>]

\* no network under direct gradient steps
GsIdle == [variant |-> "none", has_ceiling |-> FALSE, ceiling |-> 0, pc |-> "idle", calls |-> 0,
           produced |-> 0, grad |-> [from |-> {}, norm |-> 0],
           applied |-> [from |-> {}, norm |-> 0], opt |-> 0, trace |-> <<>>]

\* ParticleReward.__init__: mean 0.0, var 1.0, samples_done 0; no sample seen
RsNew == [mean |-> <<0, 1>>, var |-> <<1, 1>>, samples_done |-> 0, seen |-> <<>>, calls |-> 0]

\* none of the computations in use
FnIdle ==
    /\ gae = GaeIdle
    /\ pr = PrNone
    /\ gs = GsIdle
    /\ stats = RsNew

\* the single-file Agent, constructed and not used
CpIdle ==
    /\ cp_cfg = [train_iterations |-> 1, aux_iterations |-> 1, kl_max |-> 1, num_batches |-> 1,
                 kl_max_is_none |-> FALSE, use_wandb |-> FALSE]
    /\ cp_pc = "idle"
    /\ cp_steps = 0
    /\ cp_decays = 0
    /\ cp_actor = 0
    /\ cp_critic = 0
    /\ cp_epoch = 0
    /\ cp_batch = 0
    /\ cp_is_aux = FALSE
    /\ cp_mb = NoBatch
    /\ cp_hist = [prev |-> NoUpdate, last |-> NoUpdate, epochs |-> 0, calls |-> 0]

\* the PPG agent after construction, run_timesteps not yet called
PpgConstructed ==
    /\ pc = "rt_start"
    /\ steps = 0
    /\ entropy_coeff = cfg.entropy_coeff
    /\ trajectory = NewTrajectory
    /\ actor = 0
    /\ critic = 0
    /\ checkpoint = <<>>
    /\ steps_done = 0
    /\ rewards = <<>>
    /\ done = FALSE
    /\ lives = 0
    /\ epoch = 0
    /\ learnCalls = 0
    /\ auxRan = FALSE
    /\ stepsAtEntry = 0
    /\ entropyAtEntry = cfg.entropy_coeff
    /\ entropyWrites = 0

\* the PPG agent, constructed and not used
PpgIdle ==
    /\ cfg = CHOOSE c \in Configs : TRUE
    /\ PpgConstructed

NoCall == [idx |-> -1, since |-> 0, stepped |-> 0, applied |-> {}]

\* no accumulated gradient step in progress
AccIdle ==
    /\ acc_cfg = [batch_size |-> 1, target_batch_size |-> 1, num_samples |-> 1]
    /\ acc_pc = "batch"
    /\ acc_epoch = 0
    /\ acc_idx = 0
    /\ acc_grad = {}
    /\ acc_opt = 0
    /\ acc_stepped = <<>>
    /\ acc_last = NoCall
    /\ acc_vetoed = {}

Init ==
    /\ CpIdle
    /\ AccIdle
    /\ FnIdle
    /\ cfg \in Configs
    /\ PpgConstructed

learnHist == <<learnCalls, auxRan, stepsAtEntry, entropyAtEntry, entropyWrites>>
episodeVars == <<rewards, done, lives>>
netVars == <<actor, critic, checkpoint>>

\* ---------------------------------------------------------- run_timesteps
\* steps_done = 0; agent.forget()
RunTimestepsStart ==
    /\ pc = "rt_start"
    /\ steps_done' = 0
    /\ trajectory' = Forget(trajectory)
    /\ pc' = "rt_loop"
    /\ UNCHANGED <<cpVars, accVars, fnVars, cfg, steps, entropy_coeff, netVars, episodeVars, epoch, learnHist>>

\* while steps_done < num_timesteps: run_episode begins (env.reset, rewards = [],
\* done = False); lives is 0 or positive (1)
RunEpisodeBegin ==
    /\ pc = "rt_loop"
    /\ steps_done < NumTimesteps
    /\ rewards' = <<>>
    /\ done' = FALSE
    /\ \E l \in 0..1 : lives' = l
    /\ pc' = "ep_step"
    /\ UNCHANGED <<cpVars, accVars, fnVars, cfg, steps, entropy_coeff, trajectory, netVars, steps_done, epoch, learnHist>>

\* the while loop of run_timesteps ends
RunTimestepsExit ==
    /\ pc = "rt_loop"
    /\ steps_done >= NumTimesteps
    /\ pc' = "rt_done"
    /\ UNCHANGED <<cpVars, accVars, fnVars, cfg, steps, entropy_coeff, trajectory, netVars, steps_done, episodeVars,
                   epoch, learnHist>>

\* one pass of run_episode's loop body: get_action, env.step, append_step
EpisodeStep ==
    /\ pc = "ep_step"
    /\ ~(lives = 0 /\ done)
    /\ \E d \in BOOLEAN, l \in 0..1 :
        /\ (Len(rewards) + 1 >= MaxEpisodeLen) => (d /\ l = 0)
        /\ done' = d
        /\ lives' = l
        /\ trajectory' = [trajectory EXCEPT
                            !.recs = Append(@, StepRecord(actor, d, learnCalls))]
    /\ rewards' = Append(rewards, 1)
    /\ UNCHANGED <<cpVars, accVars, fnVars, cfg, pc, steps, entropy_coeff, netVars, steps_done, epoch, learnHist>>

\* the pretrain branch after the loop: calc_pretrain_rewards(agent, state_dset).tolist()
\* raises, at the call (calc_pretrain_rewards takes the agent alone) or at .tolist()
\* (it returns nothing, after it has assigned trajectory.rewards); append_rewards
\* and calc_advantages are not reached and the exception leaves run_timesteps
PretrainFill ==
    /\ \E assigned \in BOOLEAN :
        trajectory' = IF assigned THEN CalcPretrainRewards(trajectory) ELSE trajectory
    /\ pc' = "failed"
    /\ UNCHANGED steps_done

\* the environment-reward branch after the loop: append_rewards(rewards), which
\* refuses a list of another length than the steps to fill, calc_advantages(config),
\* return trajectory, total_steps_done + episode_length
EnvRewardFill ==
    IF FillMatches(trajectory, rewards)
      THEN /\ trajectory' = [CalcAdvantages(AppendRewards(trajectory, rewards))
                                EXCEPT !.episodes = @ + 1]
           /\ steps_done' = steps_done + Len(rewards)
           /\ pc' = "rt_check"
      ELSE /\ pc' = "failed"
           /\ UNCHANGED <<trajectory, steps_done>>

\* an episode end that calls calc_advantages without the reward fill
EpisodeEndNoFill ==
    /\ pc = "ep_step"
    /\ lives = 0 /\ done
    /\ trajectory' = [CalcAdvantages(trajectory) EXCEPT !.episodes = @ + 1]
    /\ steps_done' = steps_done + Len(rewards)
    /\ pc' = "rt_check"
    /\ UNCHANGED <<cpVars, accVars, fnVars, cfg, steps, entropy_coeff, netVars, episodeVars, epoch, learnHist>>

\* after the loop of run_episode: episode_length = len(rewards), the reward fill of
\* the branch taken, calc_advantages, return
EpisodeEnd ==
    /\ pc = "ep_step"
    /\ lives = 0 /\ done
    /\ IF cfg.is_pretrain THEN PretrainFill ELSE EnvRewardFill
    /\ UNCHANGED <<cpVars, accVars, fnVars, cfg, steps, entropy_coeff, netVars, episodeVars, epoch, learnHist>>

\* a check that waits for the buffer to grow beyond rollout_length
RolloutReadyStrict(n, rl) == n > rl

\* len(agent.trajectory) >= agent.config['rollout_length']
RolloutReady(n, rl) == n >= rl

\* if len(agent.trajectory) >= rollout_length: data_to_tensors, learn
RolloutCheck ==
    /\ pc = "rt_check"
    /\ pc' = IF RolloutReady(TrajLen(trajectory), cfg.rollout_length) THEN "learn" ELSE "rt_loop"
    /\ UNCHANGED <<cpVars, accVars, fnVars, cfg, steps, entropy_coeff, trajectory, netVars, steps_done, episodeVars,
                   epoch, learnHist>>

\* ------------------------------------------------------------ Agent.learn
\* the counter advanced by one per learn() call
StepsAfterPpoByOne(s, ti) == s + 1

\* self.steps += self.config['train_iterations']
StepsAfterPpo(s, ti) == s + ti

\* the auxiliary phase triggered on equality only
AuxDueOnEquality(s, af) == s = af

\* if self.steps >= self.config['aux_freq']
AuxDue(s, af) == s >= af

\* the decay without its floor
DecayEntropyNoFloor(c, decay, floor) == RMul(c, decay)

\* max(self.entropy_coeff * entropy_decay, entropy_min)
DecayEntropy(c, decay, floor) == RMax(RMul(c, decay), floor)

\* a learn() that goes to its training phase without calc_advantages
LearnBeginNoAdvantages ==
    /\ pc = "learn"
    /\ learnCalls' = learnCalls + 1
    /\ auxRan' = FALSE
    /\ stepsAtEntry' = steps
    /\ entropyAtEntry' = entropy_coeff
    /\ entropyWrites' = 0
    /\ pc' = "ppo_loader"
    /\ UNCHANGED <<cpVars, accVars, fnVars, cfg, steps, entropy_coeff, trajectory, netVars, steps_done,
                   episodeVars, epoch>>

\* learn() is entered: the bootstrap values come from the critic without gradient,
\* then calc_advantages(config, last_state_vals)
LearnBegin ==
    /\ pc = "learn"
    /\ trajectory' = CalcAdvantages(trajectory)
    /\ learnCalls' = learnCalls + 1
    /\ auxRan' = FALSE
    /\ stepsAtEntry' = steps
    /\ entropyAtEntry' = entropy_coeff
    /\ entropyWrites' = 0
    /\ pc' = "ppo_loader"
    /\ UNCHANGED <<cpVars, accVars, fnVars, cfg, steps, entropy_coeff, netVars, steps_done, episodeVars, epoch>>

\* ppo_training_phase begins: loader = get_loader(dset=self.trajectory, ...);
\* DataLoader raises ValueError for a batch_size that is not positive
PpoPhaseBegin ==
    /\ pc = "ppo_loader"
    /\ IF cfg.batch_size <= 0
         THEN /\ pc' = "failed"
              /\ UNCHANGED <<trajectory, epoch>>
         ELSE /\ trajectory' = Sampled(trajectory)
              /\ epoch' = 0
              /\ pc' = IF cfg.train_iterations > 0 THEN "ppo_policy" ELSE "ppo_done"
    /\ UNCHANGED <<cpVars, accVars, fnVars, cfg, steps, entropy_coeff, netVars, steps_done, episodeVars, learnHist>>

\* train_ppo_epoch(agent, loader): one pass over the loader's mini-batches, each
\* a policy update that the trust-region guard may veto
TrainPpoEpoch ==
    /\ pc = "ppo_policy"
    /\ \E vetoed \in 0..NumBatches(TrajLen(trajectory), cfg.batch_size) :
        actor' = actor + NumBatches(TrajLen(trajectory), cfg.batch_size) - vetoed
    /\ pc' = "ppo_critic"
    /\ UNCHANGED <<cpVars, accVars, fnVars, cfg, steps, entropy_coeff, trajectory, critic, checkpoint, steps_done,
                   episodeVars, epoch, learnHist>>

\* train_critic_epoch(agent, loader): one pass of critic updates; the for loop of
\* ppo_training_phase then goes on or ends
TrainCriticEpoch ==
    /\ pc = "ppo_critic"
    /\ critic' = critic + NumBatches(TrajLen(trajectory), cfg.batch_size)
    /\ epoch' = epoch + 1
    /\ pc' = IF epoch + 1 < cfg.train_iterations THEN "ppo_policy" ELSE "ppo_done"
    /\ UNCHANGED <<cpVars, accVars, fnVars, cfg, steps, entropy_coeff, trajectory, actor, checkpoint, steps_done,
                   episodeVars, learnHist>>

\* after ppo_training_phase: the counter is advanced and compared with aux_freq;
\* aux_training_phase begins with is_aux_epoch = True and a new loader
PpoPhaseDone ==
    /\ pc = "ppo_done"
    /\ steps' = StepsAfterPpo(steps, cfg.train_iterations)
    /\ IF AuxDue(steps', cfg.aux_freq)
         THEN /\ trajectory' = [trajectory EXCEPT !.is_aux_epoch = TRUE]
              /\ epoch' = 0
              /\ auxRan' = TRUE
              /\ pc' = IF cfg.aux_iterations > 0 THEN "aux_policy" ELSE "aux_done"
         ELSE /\ pc' = "learn_exit"
              /\ UNCHANGED <<trajectory, epoch, auxRan>>
    /\ UNCHANGED <<cpVars, accVars, fnVars, cfg, entropy_coeff, netVars, steps_done, episodeVars, learnCalls,
                   stepsAtEntry, entropyAtEntry, entropyWrites>>

\* train_aux_epoch(agent, loader): one pass of auxiliary updates of the actor,
\* each of which the auxiliary trust-region guard may veto
TrainAuxEpoch ==
    /\ pc = "aux_policy"
    /\ \E vetoed \in 0..NumBatches(TrajLen(trajectory), cfg.batch_size) :
        actor' = actor + NumBatches(TrajLen(trajectory), cfg.batch_size) - vetoed
    /\ pc' = "aux_critic"
    /\ UNCHANGED <<cpVars, accVars, fnVars, cfg, steps, entropy_coeff, trajectory, critic, checkpoint, steps_done,
                   episodeVars, epoch, learnHist>>

\* train_critic_epoch(agent, loader, is_aux=True)
TrainAuxCriticEpoch ==
    /\ pc = "aux_critic"
    /\ critic' = critic + NumBatches(TrajLen(trajectory), cfg.batch_size)
    /\ epoch' = epoch + 1
    /\ pc' = IF epoch + 1 < cfg.aux_iterations THEN "aux_policy" ELSE "aux_done"
    /\ UNCHANGED <<cpVars, accVars, fnVars, cfg, steps, entropy_coeff, trajectory, actor, checkpoint, steps_done,
                   episodeVars, learnHist>>

\* aux_training_phase ends (is_aux_epoch = False) and learn resets the counter
AuxPhaseDone ==
    /\ pc = "aux_done"
    /\ trajectory' = [trajectory EXCEPT !.is_aux_epoch = FALSE]
    /\ steps' = 0
    /\ pc' = "learn_exit"
    /\ UNCHANGED <<cpVars, accVars, fnVars, cfg, entropy_coeff, netVars, steps_done, episodeVars, epoch, learnHist>>

\* the entropy coefficient decays towards its floor; log_training
LearnExit ==
    /\ pc = "learn_exit"
    /\ entropy_coeff' = DecayEntropy(entropy_coeff, cfg.entropy_decay, cfg.entropy_min)
    /\ entropyWrites' = entropyWrites + 1
    /\ pc' = "learn_forget"
    /\ UNCHANGED <<cpVars, accVars, fnVars, cfg, steps, trajectory, netVars, steps_done, episodeVars, epoch,
                   learnCalls, auxRan, stepsAtEntry, entropyAtEntry>>

\* self.forget()
LearnForget ==
    /\ pc = "learn_forget"
    /\ trajectory' = Forget(trajectory)
    /\ pc' = "learn_save"
    /\ UNCHANGED <<cpVars, accVars, fnVars, cfg, steps, entropy_coeff, netVars, steps_done, episodeVars, epoch,
                   learnHist>>

\* a learn() that returns without writing the checkpoint
LearnSaveSkipped ==
    /\ pc = "learn_save"
    /\ pc' = "rt_forget"
    /\ UNCHANGED <<cpVars, accVars, fnVars, cfg, steps, entropy_coeff, trajectory, netVars, steps_done,
                   episodeVars, epoch, learnHist>>

\* self.save_model(); learn returns
LearnSave ==
    /\ pc = "learn_save"
    /\ checkpoint' = <<actor, critic>>
    /\ pc' = "rt_forget"
    /\ UNCHANGED <<cpVars, accVars, fnVars, cfg, steps, entropy_coeff, trajectory, actor, critic, steps_done,
                   episodeVars, epoch, learnHist>>

\* run_timesteps after learn: agent.forget()
AfterLearnForget ==
    /\ pc = "rt_forget"
    /\ trajectory' = Forget(trajectory)
    /\ pc' = "rt_save"
    /\ UNCHANGED <<cpVars, accVars, fnVars, cfg, steps, entropy_coeff, netVars, steps_done, episodeVars, epoch,
                   learnHist>>

\* run_timesteps after learn: agent.save_model()
AfterLearnSave ==
    /\ pc = "rt_save"
    /\ checkpoint' = <<actor, critic>>
    /\ pc' = "rt_loop"
    /\ UNCHANGED <<cpVars, accVars, fnVars, cfg, steps, entropy_coeff, trajectory, actor, critic, steps_done,
                   episodeVars, epoch, learnHist>>

Next ==
    \/ RunTimestepsStart
    \/ RunEpisodeBegin
    \/ RunTimestepsExit
    \/ EpisodeStep
    \/ EpisodeEnd
    \/ RolloutCheck
    \/ LearnBegin
    \/ PpoPhaseBegin
    \/ TrainPpoEpoch
    \/ TrainCriticEpoch
    \/ PpoPhaseDone
    \/ TrainAuxEpoch
    \/ TrainAuxCriticEpoch
    \/ AuxPhaseDone
    \/ LearnExit
    \/ LearnForget
    \/ LearnSave
    \/ AfterLearnForget
    \/ AfterLearnSave

Spec == Init /\ [][Next]_vars

\* ------------------------------------------------ properties of Agent.learn
LearnPcs == {"ppo_loader", "ppo_policy", "ppo_critic", "ppo_done", "aux_policy", "aux_critic", "aux_done",
             "learn_exit", "learn_forget", "learn_save"}

AuxPcs == {"aux_policy", "aux_critic", "aux_done"}

CollectPcs == {"rt_loop", "ep_step", "rt_check", "learn"}

\* C1 as stated: each completed PPO phase advances the counter by exactly one, and
\* the auxiliary phase runs in the k-th learn() call iff k is a multiple of aux_freq.
C1_AuxEveryAuxFreqCalls ==
    /\ (pc \in AuxPcs \/ (pc = "learn_exit" /\ ~auxRan)) => steps = stepsAtEntry + 1
    /\ pc = "learn_exit" => (auxRan <=> learnCalls % cfg.aux_freq = 0)

\* C1 amended: each completed PPO phase advances the counter by train_iterations,
\* and the auxiliary phase runs in the k-th learn() call iff k is a multiple of
\* ceil(aux_freq / train_iterations).
C1_AuxEveryPeriodCalls ==
    /\ (pc \in AuxPcs \/ (pc = "learn_exit" /\ ~auxRan))
          => steps = stepsAtEntry + cfg.train_iterations
    /\ pc = "learn_exit"
          => (auxRan <=> learnCalls % CeilDiv(cfg.aux_freq, cfg.train_iterations) = 0)

\* the fourth learn() call with train_iterations = 2 and aux_freq = 3 has run the
\* auxiliary phase (as did the second)
C1_Witness ==
    /\ pc = "learn_exit"
    /\ auxRan
    /\ learnCalls = 4
    /\ cfg.train_iterations = 2
    /\ cfg.aux_freq = 3

\* C2: once learn() has returned 0 <= steps < aux_freq; the counter is 0 after a
\* learn() in which the auxiliary phase ran; the auxiliary phase runs only with the
\* advanced counter at aux_freq or above.
C2_CounterBelowAuxFreq ==
    /\ pc \notin LearnPcs => (0 <= steps /\ steps < cfg.aux_freq)
    /\ (pc \in {"learn_exit", "learn_forget", "learn_save", "rt_forget"} /\ auxRan) => steps = 0
    /\ pc \in AuxPcs => (auxRan /\ steps >= cfg.aux_freq)
    /\ (pc = "learn_exit" /\ ~auxRan) => steps < cfg.aux_freq

\* learn() has returned after an auxiliary phase that followed a learn() without one
C2_Witness ==
    /\ pc = "rt_forget"
    /\ auxRan
    /\ steps = 0
    /\ learnCalls = 2
    /\ cfg.aux_freq = 2
    /\ cfg.train_iterations = 1

C9_FreshBufferAfterLearn ==
    /\ pc \in {"learn_save", "rt_forget", "rt_save"} => trajectory = NewTrajectory
    /\ \A i \in 1..TrajLen(trajectory) :
          /\ trajectory.recs[i].rounds <= 1
          /\ trajectory.recs[i].rollout = learnCalls - (IF pc \in LearnPcs THEN 1 ELSE 0)

\* the first step collected after the second training round sits alone in the buffer
C9_Witness ==
    /\ pc = "ep_step"
    /\ learnCalls = 2
    /\ TrajLen(trajectory) = 1
    /\ trajectory.recs[1].rollout = 2

\* C10: while a rollout is collected and when its learn() starts, every stored
\* record was recorded under the actor parameters that are current: no actor
\* update happens between the first append and the start of learn().
C10_RecordsUnderCurrentActor ==
    pc \in CollectPcs => \A i \in 1..TrajLen(trajectory) : trajectory.recs[i].ver = actor

\* learn() is about to start on a rollout collected after actor updates
C10_Witness ==
    /\ pc = "learn"
    /\ actor >= 2
    /\ TrajLen(trajectory) >= 2
    /\ learnCalls >= 1

\* --------------------------------------- properties of the rollout buffer
\* positions of learn() at which the rollout is still in the buffer
TrainPcs == LearnPcs \ {"learn_save"}

\* C11 as stated: learn() is invoked only on a buffer of at least rollout_length
\* steps, and no step is appended to a buffer that already holds rollout_length
\* steps, so that the buffer never grows beyond rollout_length.
C11_NoStepBeyondRolloutLength ==
    /\ pc \in {"learn"} \cup TrainPcs => TrajLen(trajectory) >= cfg.rollout_length
    /\ TrajLen(trajectory) <= cfg.rollout_length

\* C11 amended: learn() is invoked only on a buffer of at least rollout_length
\* steps; the length is compared when an episode has ended, so no episode is begun
\* on a buffer that holds rollout_length steps, while the running episode is
\* appended to its end whatever the length.
C11_LearnWhenEpisodeEndsAtLength ==
    /\ pc \in {"learn"} \cup TrainPcs => TrajLen(trajectory) >= cfg.rollout_length
    /\ pc = "rt_loop" => TrajLen(trajectory) < cfg.rollout_length
    /\ pc = "ep_step" => TrajLen(trajectory) - Len(rewards) < cfg.rollout_length

\* learn() is about to start on a buffer longer than rollout_length: the last
\* episode began one step short of it and ran for two steps
C11_Witness ==
    /\ pc = "learn"
    /\ TrajLen(trajectory) > cfg.rollout_length
    /\ Len(rewards) = 2

\* C12 as stated: between two buffer resets calc_advantages is invoked exactly
\* once, after the last step was appended and rewarded and before the first
\* mini-batch is sampled.
C12_AdvantagesOncePerRollout ==
    /\ trajectory.adv_calls <= 1
    /\ pc = "ppo_loader"
          => /\ trajectory.adv_calls = 1
             /\ trajectory.n_rewards = TrajLen(trajectory)

\* C12 amended: between two buffer resets calc_advantages is invoked once at the
\* end of every episode and once more when learn() begins; that last invocation
\* comes after the last step was appended and rewarded and before the first
\* mini-batch is sampled.
C12_AdvantagesPerEpisodeAndLearn ==
    /\ pc \in CollectPcs \cup {"rt_done"} => trajectory.adv_calls = trajectory.episodes
    /\ pc \in TrainPcs => trajectory.adv_calls = trajectory.episodes + 1
    /\ pc = "ppo_loader"
          => /\ trajectory.n_rewards = TrajLen(trajectory)
             /\ \A i \in 1..TrajLen(trajectory) : trajectory.recs[i].rounds = 0
    /\ \A i \in 1..TrajLen(trajectory) :
          trajectory.recs[i].rounds >= 1 => trajectory.adv_calls = trajectory.episodes + 1

\* learn() has computed the advantages of a rollout of two episodes for the third
\* time and has not built its loader yet
C12_Witness ==
    /\ pc = "ppo_loader"
    /\ trajectory.episodes = 2
    /\ trajectory.adv_calls = 3

\* C13 as stated: on the pretrain and on the environment-reward branch an episode
\* that is over has had its rewards filled, one per step, so outside a running
\* episode the buffer holds as many rewards as steps; within an episode the
\* steps of that episode are the ones without a reward.
C13_RewardFillPerEpisode ==
    /\ pc \notin {"rt_start", "ep_step"} => trajectory.n_rewards = TrajLen(trajectory)
    /\ pc = "ep_step" => trajectory.n_rewards = TrajLen(trajectory) - Len(rewards)

C20_CheckpointBetweenRollouts ==
    /\ [](/\ pc \in {"rt_forget", "rt_save"} => checkpoint = <<actor, critic>>
          /\ (learnCalls >= 1 /\ pc \in CollectPcs \cup {"rt_done"})
                => checkpoint = <<actor, critic>>
          /\ pc = "learn_save" => (entropyWrites = 1 /\ trajectory = NewTrajectory))
    /\ [][checkpoint' # checkpoint => pc \in {"learn_save", "rt_save"}]_vars

\* the second training round, with an auxiliary phase, has finished and learn()
\* has written its parameters
C20_Witness ==
    /\ pc = "rt_forget"
    /\ learnCalls = 2
    /\ auxRan
    /\ actor >= 2
    /\ checkpoint = <<actor, critic>>

\* run_timesteps keeps running: a single thread, no step of which waits on anything
SpecLive == Init /\ [][Next]_vars /\ WF_vars(Next)

\* C27 as stated: every run_episode call appends at least one step and returns
\* with steps_done strictly increased, and run_timesteps terminates by leaving its
\* loop, which it does once steps_done >= num_timesteps.
C27_RunTimestepsTerminates ==
    /\ [][(pc = "ep_step" /\ pc' # "ep_step")
            => (pc' = "rt_check" /\ Len(rewards) >= 1 /\ steps_done' > steps_done)]_vars
    /\ [](pc = "rt_done" => steps_done >= NumTimesteps)
    /\ <>(pc = "rt_done")

\* ------------------------------------------- configurations of any kind
\* config dictionaries as Agent.__init__ accepts them: it stores the dictionary
\* and reads none of batch_size, target_batch_size, rollout_length, aux_freq
AnyConfigs ==
    { [c EXCEPT !.batch_size = bs, !.target_batch_size = tbs, !.rollout_length = rl,
                !.aux_freq = af] :
        c \in {k \in Configs : k.train_iterations = 1 /\ k.aux_freq = 1 /\ ~k.is_pretrain},
        bs \in {-1, 0, BatchSize}, tbs \in {BatchSize - 1, BatchSize},
        rl \in {0, RolloutLength}, af \in {0, 1} }

InitCfg ==
    /\ CpIdle
    /\ AccIdle
    /\ FnIdle
    /\ cfg \in AnyConfigs
    /\ PpgConstructed

SpecCfg == InitCfg /\ [][Next]_vars

\* C18 as stated: with a configuration whose batch_size is not positive, whose
\* rollout_length is zero, whose target_batch_size is below batch_size or whose
\* aux_freq is below one, the Agent's construction fails: no environment step is
\* taken, learn() is not called, no optimizer step happens and no error is raised
\* once run_timesteps is under way.
C18_InvalidConfigRejected ==
    (\/ cfg.batch_size <= 0
     \/ cfg.rollout_length = 0
     \/ cfg.target_batch_size < cfg.batch_size
     \/ cfg.aux_freq < 1)
        => /\ TrajLen(trajectory) = 0
           /\ steps_done = 0
           /\ learnCalls = 0
           /\ actor = 0
           /\ critic = 0
           /\ pc # "failed"

\* ------------------------------------------------- agent.py: class Agent
CpConfigs ==
    { [train_iterations |-> ti, aux_iterations |-> 1, kl_max |-> km, num_batches |-> nb,
       kl_max_is_none |-> FALSE, use_wandb |-> w] :
        ti \in 1..MaxCpTrainIter, km \in 0..1, nb \in 1..MaxCpBatches, w \in BOOLEAN }

\* the single-file Agent after construction, learn() not yet called
CpConstructed ==
    /\ AccIdle
    /\ FnIdle
    /\ cp_pc = "idle"
    /\ cp_steps = 0
    /\ cp_decays = 0
    /\ cp_actor = 0
    /\ cp_critic = 0
    /\ cp_epoch = 0
    /\ cp_batch = 0
    /\ cp_is_aux = FALSE
    /\ cp_mb = NoBatch
    /\ cp_hist = [prev |-> NoUpdate, last |-> NoUpdate, epochs |-> 0, calls |-> 0]
    /\ PpgIdle

InitCp ==
    /\ cp_cfg \in CpConfigs
    /\ CpConstructed

\* a guard that also vetoes an estimate equal to the ceiling
KlExceededOrEqual(kl, kl_max) == kl >= kl_max

\* if kl_div > self.kl_max
KlExceeded(kl, kl_max) == kl > kl_max

\* the update u becomes the last one
Logged(h, u) == [h EXCEPT !.prev = h.last, !.last = u]

\* the loader yields its next mini-batch, a tuple of the kind is_aux_epoch selects
Drawn(phase) == [draw |-> cp_mb.draw + 1, phase |-> phase, is_aux |-> cp_is_aux, kl |-> 0,
                 kl_exceeded |-> <<>>, actor_before |-> cp_actor, actor_steps |-> 0,
                 critic_before |-> cp_critic, critic_steps |-> 0]

\* learn() is called
CpLearn ==
    /\ cp_pc = "idle"
    /\ cp_decays + cp_cfg.train_iterations <= MaxCpEpochs
    /\ cp_epoch' = 0
    /\ cp_mb' = NoBatch
    /\ cp_hist' = [prev |-> NoUpdate, last |-> NoUpdate, epochs |-> 0, calls |-> cp_hist.calls + 1]
    /\ cp_pc' = "epoch_top"
    /\ UNCHANGED <<ppgVars, accVars, fnVars, cp_cfg, cp_steps, cp_decays, cp_actor, cp_critic, cp_batch, cp_is_aux>>

\* for epoch in range(self.train_iterations): a new DataLoader, train_ppo_epoch(loader)
CpEpochBegin ==
    /\ cp_pc = "epoch_top"
    /\ cp_epoch < cp_cfg.train_iterations
    /\ cp_batch' = 0
    /\ cp_hist' = [cp_hist EXCEPT !.epochs = @ + 1]
    /\ cp_pc' = "ppo_batch"
    /\ UNCHANGED <<ppgVars, accVars, fnVars, cp_cfg, cp_steps, cp_decays, cp_actor, cp_critic, cp_epoch,
                   cp_is_aux, cp_mb>>

\* the for loop over the epochs is over
CpPpoDone ==
    /\ cp_pc = "epoch_top"
    /\ cp_epoch >= cp_cfg.train_iterations
    /\ cp_pc' = "aux_check"
    /\ UNCHANGED <<ppgVars, accVars, fnVars, cp_cfg, cp_steps, cp_decays, cp_actor, cp_critic, cp_epoch,
                   cp_batch, cp_is_aux, cp_mb, cp_hist>>

\* train_ppo_epoch: for states, actions, ... in loader
CpDrawBatch ==
    /\ cp_pc = "ppo_batch"
    /\ cp_batch < cp_cfg.num_batches
    /\ cp_mb' = Drawn("ppo")
    /\ cp_pc' = "policy"
    /\ UNCHANGED <<ppgVars, accVars, fnVars, cp_cfg, cp_steps, cp_decays, cp_actor, cp_critic, cp_epoch,
                   cp_batch, cp_is_aux, cp_hist>>

\* the loader is exhausted: train_ppo_epoch returns, entropy_coeff *= entropy_decay,
\* self.steps += 1
CpEpochEnd ==
    /\ cp_pc = "ppo_batch"
    /\ cp_batch >= cp_cfg.num_batches
    /\ cp_decays' = cp_decays + 1
    /\ cp_steps' = cp_steps + 1
    /\ cp_epoch' = cp_epoch + 1
    /\ cp_pc' = "epoch_top"
    /\ UNCHANGED <<ppgVars, accVars, fnVars, cp_cfg, cp_actor, cp_critic, cp_batch, cp_is_aux, cp_mb, cp_hist>>

\* train_policy_net, the values logged under the key 'kl_exceeded': 1 before the
\* return of the guard, 0 with the entropy and the KL estimate after the step
PolicyKlExceededLog(use_wandb, exceeded) ==
    IF use_wandb THEN (IF exceeded THEN <<1>> ELSE <<0>>) ELSE <<>>

\* train_aux_net, the values logged under the key 'kl_exceeded': 1 before the
\* return of the guard; the log after the step has the keys 'aux state value',
\* 'aux loss' and 'aux kl_div' only
AuxKlExceededLog(use_wandb, exceeded) ==
    IF use_wandb /\ exceeded THEN <<1>> ELSE <<>>

\* train_policy_net / train_aux_net: the KL estimate is computed; above the ceiling
\* the method logs and returns, otherwise zero_grad, backward, one actor_opt.step()
\* and the log
GatedActorStep ==
    \E kl \in 0..MaxKl :
        LET exceeded == KlExceeded(kl, cp_cfg.kl_max)
        IN /\ cp_actor' = IF exceeded THEN cp_actor ELSE cp_actor + 1
           /\ cp_mb' = [cp_mb EXCEPT
                           !.kl = kl,
                           !.actor_steps = @ + (cp_actor' - cp_actor),
                           !.kl_exceeded = IF cp_mb.phase = "aux"
                                             THEN AuxKlExceededLog(cp_cfg.use_wandb, exceeded)
                                             ELSE PolicyKlExceededLog(cp_cfg.use_wandb, exceeded)]

\* if kl_div > self.kl_max with kl_max = None: the comparison of a tensor with
\* None raises TypeError, which leaves learn()
KlComparisonRaises ==
    /\ cp_pc' = "failed"
    /\ UNCHANGED <<cp_actor, cp_mb, cp_hist>>

\* a train_ppo_epoch that goes to the next mini-batch without the critic update
CpTrainPolicyNetOnly ==
    /\ cp_pc = "policy"
    /\ GatedActorStep
    /\ cp_hist' = Logged(cp_hist, <<"policy", cp_mb.draw>>)
    /\ cp_batch' = cp_batch + 1
    /\ cp_pc' = "ppo_batch"
    /\ UNCHANGED <<ppgVars, accVars, fnVars, cp_cfg, cp_steps, cp_decays, cp_critic, cp_epoch, cp_is_aux>>

\* self.train_policy_net(states, actions, log_probs, advantages)
CpTrainPolicyNet ==
    /\ cp_pc = "policy"
    /\ IF cp_cfg.kl_max_is_none
         THEN KlComparisonRaises
         ELSE /\ GatedActorStep
              /\ cp_hist' = Logged(cp_hist, <<"policy", cp_mb.draw>>)
              /\ cp_pc' = "critic"
    /\ UNCHANGED <<ppgVars, accVars, fnVars, cp_cfg, cp_steps, cp_decays, cp_critic, cp_epoch, cp_batch,
                   cp_is_aux>>

\* a critic update behind the trust-region guard of the actor
TrainCriticGated ==
    /\ cp_critic' = IF cp_mb.kl > cp_cfg.kl_max THEN cp_critic ELSE cp_critic + 1
    /\ cp_mb' = [cp_mb EXCEPT !.critic_steps = @ + (cp_critic' - cp_critic)]

\* train_critic: zero_grad, backward, one critic_opt.step()
TrainCritic ==
    /\ cp_critic' = cp_critic + 1
    /\ cp_mb' = [cp_mb EXCEPT !.critic_steps = @ + 1]

\* self.train_critic(states, expected_returns), then the loop goes to the next mini-batch
CpTrainCritic ==
    /\ cp_pc = "critic"
    /\ TrainCritic
    /\ cp_hist' = Logged(cp_hist, <<"critic", cp_mb.draw>>)
    /\ cp_batch' = cp_batch + 1
    /\ cp_pc' = "ppo_batch"
    /\ UNCHANGED <<ppgVars, accVars, fnVars, cp_cfg, cp_steps, cp_decays, cp_actor, cp_epoch, cp_is_aux>>

\* if self.steps == self.aux_freq: self.steps = 0 and the auxiliary epochs follow;
\* otherwise learn returns
CpAuxCheck ==
    /\ cp_pc = "aux_check"
    /\ IF cp_steps = CpAuxFreq
         THEN /\ cp_steps' = 0
              /\ cp_epoch' = 0
              /\ cp_pc' = "aux_top"
         ELSE /\ cp_pc' = "idle"
              /\ UNCHANGED <<cp_steps, cp_epoch>>
    /\ UNCHANGED <<ppgVars, accVars, fnVars, cp_cfg, cp_decays, cp_actor, cp_critic, cp_batch, cp_is_aux,
                   cp_mb, cp_hist>>

\* for aux_epoch in range(self.aux_iterations): a new DataLoader, train_aux_epoch(loader)
\* sets is_aux_epoch
CpAuxEpochBegin ==
    /\ cp_pc = "aux_top"
    /\ cp_epoch < cp_cfg.aux_iterations
    /\ cp_is_aux' = TRUE
    /\ cp_batch' = 0
    /\ cp_pc' = "aux_batch"
    /\ UNCHANGED <<ppgVars, accVars, fnVars, cp_cfg, cp_steps, cp_decays, cp_actor, cp_critic, cp_epoch,
                   cp_mb, cp_hist>>

\* the auxiliary epochs are over: learn returns
CpAuxDone ==
    /\ cp_pc = "aux_top"
    /\ cp_epoch >= cp_cfg.aux_iterations
    /\ cp_pc' = "idle"
    /\ UNCHANGED <<ppgVars, accVars, fnVars, cp_cfg, cp_steps, cp_decays, cp_actor, cp_critic, cp_epoch,
                   cp_batch, cp_is_aux, cp_mb, cp_hist>>

\* train_aux_epoch: for states, expected_returns, log_dists, aux_vals in loader
CpAuxDrawBatch ==
    /\ cp_pc = "aux_batch"
    /\ cp_batch < cp_cfg.num_batches
    /\ cp_mb' = Drawn("aux")
    /\ cp_pc' = "aux_net"
    /\ UNCHANGED <<ppgVars, accVars, fnVars, cp_cfg, cp_steps, cp_decays, cp_actor, cp_critic, cp_epoch,
                   cp_batch, cp_is_aux, cp_hist>>

\* a train_aux_epoch that returns without resetting is_aux_epoch
CpAuxEpochEndFlagKept ==
    /\ cp_pc = "aux_batch"
    /\ cp_batch >= cp_cfg.num_batches
    /\ cp_epoch' = cp_epoch + 1
    /\ cp_pc' = "aux_top"
    /\ UNCHANGED <<ppgVars, accVars, fnVars, cp_cfg, cp_steps, cp_decays, cp_actor, cp_critic, cp_batch,
                   cp_is_aux, cp_mb, cp_hist>>

\* the loader is exhausted: is_aux_epoch = False, train_aux_epoch returns
CpAuxEpochEnd ==
    /\ cp_pc = "aux_batch"
    /\ cp_batch >= cp_cfg.num_batches
    /\ cp_is_aux' = FALSE
    /\ cp_epoch' = cp_epoch + 1
    /\ cp_pc' = "aux_top"
    /\ UNCHANGED <<ppgVars, accVars, fnVars, cp_cfg, cp_steps, cp_decays, cp_actor, cp_critic, cp_batch,
                   cp_mb, cp_hist>>

\* self.train_aux_net(states, expected_returns, log_dists, aux_vals)
CpTrainAuxNet ==
    /\ cp_pc = "aux_net"
    /\ IF cp_cfg.kl_max_is_none
         THEN KlComparisonRaises
         ELSE /\ GatedActorStep
              /\ cp_hist' = Logged(cp_hist, <<"aux", cp_mb.draw>>)
              /\ cp_pc' = "aux_critic"
    /\ UNCHANGED <<ppgVars, accVars, fnVars, cp_cfg, cp_steps, cp_decays, cp_critic, cp_epoch, cp_batch,
                   cp_is_aux>>

\* self.train_critic(states, expected_returns) of train_aux_epoch
CpAuxTrainCritic ==
    /\ cp_pc = "aux_critic"
    /\ TrainCritic
    /\ cp_hist' = Logged(cp_hist, <<"aux_critic", cp_mb.draw>>)
    /\ cp_batch' = cp_batch + 1
    /\ cp_pc' = "aux_batch"
    /\ UNCHANGED <<ppgVars, accVars, fnVars, cp_cfg, cp_steps, cp_decays, cp_actor, cp_epoch, cp_is_aux>>

NextCp ==
    \/ CpLearn
    \/ CpEpochBegin
    \/ CpPpoDone
    \/ CpDrawBatch
    \/ CpEpochEnd
    \/ CpTrainPolicyNet
    \/ CpTrainCritic
    \/ CpAuxCheck
    \/ CpAuxEpochBegin
    \/ CpAuxDone
    \/ CpAuxDrawBatch
    \/ CpAuxEpochEnd
    \/ CpTrainAuxNet
    \/ CpAuxTrainCritic

SpecCp == InitCp /\ [][NextCp]_vars

\* the configurations of SpecCp and those with the ceiling disabled, kl_max = None
KlConfigs ==
    CpConfigs \cup { [c EXCEPT !.kl_max_is_none = TRUE] : c \in {k \in CpConfigs : k.kl_max = 0} }

InitKl ==
    /\ cp_cfg \in KlConfigs
    /\ CpConstructed

SpecKl == InitKl /\ [][NextCp]_vars

\* --------------------------------------- properties of the single-file Agent
\* the actor update of the mini-batch in hand has returned
ActorUpdateReturned == cp_pc \in {"critic", "aux_critic"} \/ cp_mb.critic_steps > 0

\* the critic update of the mini-batch in hand has returned
MiniBatchTrained == cp_pc \in {"ppo_batch", "aux_batch"} /\ cp_mb.draw > 0

\* C3: for every mini-batch of the PPO phase and of the auxiliary phase, a KL
\* estimate above the ceiling means no actor optimizer step and unchanged actor
\* parameters; an estimate not above it means exactly one actor optimizer step.
C3_TrustRegionGate ==
    ActorUpdateReturned =>
        IF cp_mb.kl > cp_cfg.kl_max
          THEN cp_mb.actor_steps = 0 /\ cp_actor = cp_mb.actor_before
          ELSE cp_mb.actor_steps = 1 /\ cp_actor = cp_mb.actor_before + 1

\* an auxiliary mini-batch whose actor update was vetoed, after earlier updates
C3_Witness ==
    /\ cp_pc = "aux_critic"
    /\ cp_mb.kl > cp_cfg.kl_max
    /\ cp_mb.actor_steps = 0
    /\ cp_actor > 0

\* C4: every mini-batch of the PPO phase and of the auxiliary phase gets exactly
\* one critic optimizer step, whether or not the guard vetoed its actor step.
C4_CriticNeverGated ==
    /\ MiniBatchTrained
          => (cp_mb.critic_steps = 1 /\ cp_critic = cp_mb.critic_before + 1)
    /\ cp_pc \in {"policy", "critic", "aux_net", "aux_critic"}
          => (cp_mb.critic_steps = 0 /\ cp_critic = cp_mb.critic_before)

\* a PPO mini-batch whose actor step was vetoed and whose critic step was taken
C4_Witness ==
    /\ cp_pc = "ppo_batch"
    /\ cp_mb.phase = "ppo"
    /\ cp_mb.kl > cp_cfg.kl_max
    /\ cp_mb.actor_steps = 0
    /\ cp_mb.critic_steps = 1

C21_KlExceededIndicator ==
    /\ ~cp_cfg.kl_max_is_none => cp_pc # "failed"
    /\ (cp_cfg.use_wandb /\ ActorUpdateReturned)
          => /\ cp_mb.kl_exceeded = <<1>> <=> cp_mb.actor_steps = 0
             /\ cp_mb.kl_exceeded = <<0>> <=> cp_mb.actor_steps = 1

\* C23 as stated: in the single-file Agent.learn, for every train_iterations >= 1,
\* the counter never passes aux_freq = 32 without the auxiliary phase running and
\* the counter being reset: it never exceeds aux_freq, and it is below aux_freq
\* whenever learn() has returned.
C23_CounterNeverPassesAuxFreq ==
    /\ cp_steps <= CpAuxFreq
    /\ cp_pc = "idle" => cp_steps < CpAuxFreq

\* the number of fields of the tuple a sampling iteration yields: (state, action,
\* return, old_log_prob, advantage) in policy mode, (state, return, old_log_dist,
\* old_aux_value) in auxiliary mode
TupleFields(is_aux_epoch) == IF is_aux_epoch THEN 4 ELSE 5

\* C25: is_aux_epoch is false whenever a mini-batch is drawn in the PPO phase, so
\* that 5-field policy tuples are yielded, true whenever one is drawn in the
\* auxiliary phase, its critic update included, so that 4-field auxiliary tuples
\* are yielded, and false again once the auxiliary phase has ended.
C25_SamplingModeMatchesPhase ==
    /\ cp_mb.phase = "ppo" => (~cp_mb.is_aux /\ TupleFields(cp_mb.is_aux) = 5)
    /\ cp_mb.phase = "aux" => (cp_mb.is_aux /\ TupleFields(cp_mb.is_aux) = 4)
    /\ cp_pc \in {"aux_batch", "aux_net", "aux_critic"} => cp_is_aux
    /\ cp_pc \in {"idle", "epoch_top", "ppo_batch", "policy", "critic", "aux_check", "aux_top"}
          => ~cp_is_aux

\* a mini-batch is drawn in the PPO phase of the learn() call that follows an
\* auxiliary phase
C25_Witness ==
    /\ cp_pc = "policy"
    /\ cp_mb.phase = "ppo"
    /\ ~cp_mb.is_aux
    /\ cp_decays >= CpAuxFreq
    /\ cp_steps = 0

\* C19 as stated: with the ceiling disabled (kl_max = None) no KL check takes
\* place: every actor update that a mini-batch's training reaches takes its
\* optimizer step, and the comparison of the KL estimate with the ceiling raises
\* no error.
C19_DisabledCeilingNoCheck ==
    cp_cfg.kl_max_is_none
        => /\ cp_pc # "failed"
           /\ ActorUpdateReturned
                 => (cp_mb.actor_steps = 1 /\ cp_actor = cp_mb.actor_before + 1)

\* ------------------------- utils/network_utils.py: accumulated gradient step
AccConfigs ==
    { [batch_size |-> b, target_batch_size |-> t, num_samples |-> n] :
        b \in 1..MaxAccBatch, t \in 1..MaxAccTarget, n \in 1..MaxAccSamples }
    \cup { [batch_size |-> 32, target_batch_size |-> 128, num_samples |-> 100] }

InitAcc ==
    /\ CpIdle
    /\ PpgIdle
    /\ FnIdle
    /\ acc_cfg \in AccConfigs
    /\ acc_pc = "batch"
    /\ acc_epoch = 0
    /\ acc_idx = 0
    /\ acc_grad = {}
    /\ acc_opt = 0
    /\ acc_stepped = <<>>
    /\ acc_last = NoCall
    /\ acc_vetoed = {}

\* num_batches = len(loader) of get_loader(dset, config), drop_last=False
AccNumBatches == NumBatches(acc_cfg.num_samples, acc_cfg.batch_size)

\* batches_to_acc = int(config['target_batch_size'] / config['batch_size'])
BatchesToAcc(c) == c.target_batch_size \div c.batch_size

\* the last batch taken to be the one after the last index
IsLastBatchOffByOne(batch_idx, num_batches) == batch_idx = num_batches

\* is_last_batch = batch_idx == num_batches - 1
IsLastBatch(batch_idx, num_batches) == batch_idx = num_batches - 1

\* batches_until_step == 0 or is_last_batch
StepDue(batch_idx, num_batches, batches_to_acc) ==
    \/ (batch_idx + 1) % batches_to_acc = 0
    \/ IsLastBatch(batch_idx, num_batches)

\* one call do_accumulated_gradient_step(..., batch_idx, num_batches) from the
\* epoch's loop over enumerate(loader): backward adds this mini-batch's gradient;
\* the modulus raises ZeroDivisionError when batches_to_acc is 0; when a step is
\* due: clip, optimizer.step(), clear_grad
AccCall ==
    /\ acc_pc = "batch"
    /\ acc_idx < AccNumBatches
    /\ LET grad == acc_grad \cup {<<acc_epoch, acc_idx>>}
           since == Cardinality(grad)
       IN IF BatchesToAcc(acc_cfg) = 0
            THEN /\ acc_pc' = "failed"
                 /\ acc_grad' = grad
                 /\ acc_last' = [idx |-> acc_idx, since |-> since, stepped |-> 0, applied |-> {}]
                 /\ UNCHANGED <<acc_idx, acc_opt, acc_stepped>>
            ELSE IF StepDue(acc_idx, AccNumBatches, BatchesToAcc(acc_cfg))
                   THEN /\ acc_opt' = acc_opt + 1
                        /\ acc_grad' = {}
                        /\ acc_stepped' = Append(acc_stepped, 1)
                        /\ acc_last' = [idx |-> acc_idx, since |-> since, stepped |-> 1,
                                        applied |-> grad]
                        /\ acc_idx' = acc_idx + 1
                        /\ UNCHANGED acc_pc
                   ELSE /\ acc_grad' = grad
                        /\ acc_stepped' = Append(acc_stepped, 0)
                        /\ acc_last' = [idx |-> acc_idx, since |-> since, stepped |-> 0,
                                        applied |-> {}]
                        /\ acc_idx' = acc_idx + 1
                        /\ UNCHANGED <<acc_pc, acc_opt>>
    /\ UNCHANGED <<ppgVars, cpVars, fnVars, acc_cfg, acc_epoch, acc_vetoed>>

\* the loader is exhausted: the epoch ends
AccEpochEnd ==
    /\ acc_pc = "batch"
    /\ acc_idx >= AccNumBatches
    /\ acc_pc' = "epoch_done"
    /\ acc_epoch' = acc_epoch + 1
    /\ UNCHANGED <<ppgVars, cpVars, fnVars, acc_cfg, acc_idx, acc_grad, acc_opt, acc_stepped, acc_last,
                   acc_vetoed>>

\* the next epoch iterates the loader again, batch_idx from 0
AccNextEpoch ==
    /\ acc_pc = "epoch_done"
    /\ acc_epoch < MaxAccEpochs
    /\ acc_idx' = 0
    /\ acc_stepped' = <<>>
    /\ acc_last' = NoCall
    /\ acc_pc' = "batch"
    /\ UNCHANGED <<ppgVars, cpVars, fnVars, acc_cfg, acc_epoch, acc_grad, acc_opt, acc_vetoed>>

NextAcc ==
    \/ AccCall
    \/ AccEpochEnd
    \/ AccNextEpoch

SpecAcc == InitAcc /\ [][NextAcc]_vars

\* the mini-batch's update behind the trust-region guard: if kl_div > kl_max the
\* update returns before the loss, the backward pass and the gradient step, and
\* the epoch's loop goes to the next mini-batch
AccVeto ==
    /\ acc_pc = "batch"
    /\ acc_idx < AccNumBatches
    /\ acc_vetoed' = acc_vetoed \cup {<<acc_epoch, acc_idx>>}
    /\ acc_stepped' = Append(acc_stepped, 0)
    /\ acc_last' = [idx |-> acc_idx, since |-> Cardinality(acc_grad), stepped |-> 0,
                    applied |-> {}]
    /\ acc_idx' = acc_idx + 1
    /\ UNCHANGED <<ppgVars, cpVars, fnVars, acc_cfg, acc_pc, acc_epoch, acc_grad, acc_opt>>

\* the epochs of accumulated gradient steps behind the guard
NextAccKl ==
    \/ AccCall
    \/ AccVeto
    \/ AccEpochEnd
    \/ AccNextEpoch

SpecAccKl == InitAcc /\ [][NextAccKl]_vars

\* ------------------------------ properties of do_accumulated_gradient_step
\* C6 as stated: for all batch_size >= 1 and target_batch_size >= 1 the call never
\* fails, and it steps exactly when the mini-batches processed since the last step
\* have reached ceil(target_batch_size / batch_size) or the mini-batch is the last.
C6_StepAtCeilOrLast ==
    /\ acc_pc # "failed"
    /\ acc_last.idx >= 0
          => (acc_last.stepped = 1
                <=> \/ acc_last.since >= CeilDiv(acc_cfg.target_batch_size, acc_cfg.batch_size)
                    \/ acc_last.idx = AccNumBatches - 1)

\* C7: with k = target_batch_size / batch_size a positive integer, the calls
\* batch_idx = 0..n-1 of an epoch step exactly once at every index i with
\* (i+1) mod k = 0 and exactly once at index n-1 and nowhere else, the gradients
\* are cleared by each step, none is left when the epoch ends, and 100 samples
\* with batch_size 32 and target_batch_size 128 give one step, at index 3.
C7_FlushOnLastBatch ==
    acc_cfg.target_batch_size % acc_cfg.batch_size = 0 =>
        LET k == acc_cfg.target_batch_size \div acc_cfg.batch_size
            n == AccNumBatches
        IN /\ acc_pc # "failed"
           /\ Len(acc_stepped) = acc_idx
           /\ \A i \in 0..(Len(acc_stepped) - 1) :
                 acc_stepped[i + 1] = IF (i + 1) % k = 0 \/ i = n - 1 THEN 1 ELSE 0
           /\ acc_last.stepped = 1 => acc_grad = {}
           /\ acc_pc = "epoch_done" => (acc_grad = {} /\ acc_idx = n)
           /\ (acc_pc = "epoch_done" /\ acc_cfg.batch_size = 32
                 /\ acc_cfg.target_batch_size = 128 /\ acc_cfg.num_samples = 100)
                 => acc_stepped = <<0, 0, 0, 1>>

\* C26 as stated: in accumulated mode no optimizer step applies a gradient that
\* an earlier epoch produced, and no step applies anything of a mini-batch the
\* trust-region guard vetoed, also when the vetoed mini-batch is the last one of
\* its epoch.
C26_NoGradientAcrossEpochs ==
    /\ \A g, h \in acc_last.applied : g[1] = h[1]
    /\ acc_last.applied \cap acc_vetoed = {}

\* an epoch of three mini-batches with k = 2 has ended: a step at index 1 by the
\* modulus and a step at index 2 by the flush on the last batch
C7_Witness ==
    /\ acc_pc = "epoch_done"
    /\ acc_cfg.target_batch_size = 2 * acc_cfg.batch_size
    /\ AccNumBatches = 3
    /\ acc_stepped = <<0, 1, 1>>
    /\ acc_grad = {}


\* ------------------------------ Trajectory.calc_advantages, called by learn
MaxNumEnvs == 2         \* config['num_envs'] ranges over 1..MaxNumEnvs
MaxGaeSteps == 2        \* vectorized environment steps stored in the buffer: 1..MaxGaeSteps
MaxGaeRecords == 4      \* the buffer holds at most this many records

\* config['discount_factor'], config['gae_lambda']
GaeConfigs ==
    { [discount_factor |-> <<1, 2>>, gae_lambda |-> <<1, 2>>],
      [discount_factor |-> <<1, 1>>, gae_lambda |-> <<1, 1>>] }

\* what one stored step holds of the reward, the critic's value of the state and done
StepKinds ==
    { [reward |-> 1, value |-> 0, done |-> FALSE],
      [reward |-> 0, value |-> 1, done |-> FALSE],
      [reward |-> 2, value |-> 1, done |-> TRUE] }

\* critic values of the states that follow the last stored step of an environment
FinalValues == {1, 3}

\* a vectorized step appends one record per environment, in the order of the
\* environments: the record at position i belongs to environment EnvOf(i, ne)
EnvOf(i, ne) == ((i - 1) % ne) + 1

\* a filled buffer of ne environments; next_val is the critic's value of the record's
\* next_state, which is the state of the environment's next record unless the
\* episode ended
GaeBuffer(c, ne, kinds, finals) ==
    [pc |-> "collected", cfg |-> c, num_envs |-> ne,
     recs |-> [i \in 1..Len(kinds) |->
                 [reward |-> kinds[i].reward, state_val |-> kinds[i].value, done |-> kinds[i].done,
                  next_val |-> IF i + ne <= Len(kinds)
                                 THEN IF kinds[i].done THEN 0 ELSE kinds[i + ne].value
                                 ELSE finals[EnvOf(i, ne)]]],
     last_state_vals |-> <<>>, adv |-> <<>>, ret |-> <<>>]

\* learn() is called on a buffer of n vectorized steps of ne environments
InitGae ==
    /\ PpgIdle
    /\ CpIdle
    /\ AccIdle
    /\ pr = PrNone
    /\ gs = GsIdle
    /\ stats = RsNew
    /\ \E ne \in 1..MaxNumEnvs, n \in 1..MaxGaeSteps :
        /\ ne * n <= MaxGaeRecords
        /\ \E c \in GaeConfigs, kinds \in [1..(ne * n) -> StepKinds],
              finals \in [1..ne -> FinalValues] :
               gae = GaeBuffer(c, ne, kinds, finals)

\* a bootstrap taken from the first num_envs next states
LastStateValsOfFirst(next_vals, ne) == SubSeq(next_vals, 1, ne)

\* final_states = self.trajectory.next_states[-num_envs:]; self.critic(final_states)
LastStateVals(next_vals, ne) == SubSeq(next_vals, Len(next_vals) - ne + 1, Len(next_vals))

\* learn(): the bootstrap values, without gradient
LearnBootstrap ==
    /\ gae.pc = "collected"
    /\ gae' = [gae EXCEPT
                 !.pc = "bootstrapped",
                 !.last_state_vals =
                     LastStateVals([i \in 1..Len(gae.recs) |-> gae.recs[i].next_val], gae.num_envs)]
    /\ UNCHANGED <<ppgVars, cpVars, accVars, pr, gs, stats>>

\* a mask that lets the recursion run through the end of an episode
GaeMaskAlwaysOne(d) == 1

\* mask = 0 if done[t] else 1
GaeMask(d) == IF d THEN 0 ELSE 1

\* advantage[t] of the record at position i, t + 1 being the next record of the same
\* environment, or the environment's bootstrap value behind its last record:
\* delta = r[t] + gamma * v[t+1] * mask - v[t];
\* advantage[t] = delta + gamma * lambda * mask * advantage[t+1]
RECURSIVE GaeAdvantage(_, _, _, _, _)
GaeAdvantage(recs, boot, ne, c, i) ==
    LET nxt == i + ne
        mask == RInt(GaeMask(recs[i].done))
        v_next == IF nxt <= Len(recs) THEN recs[nxt].state_val ELSE boot[EnvOf(i, ne)]
        adv_next == IF nxt <= Len(recs) THEN GaeAdvantage(recs, boot, ne, c, nxt) ELSE RInt(0)
        delta == RSub(RAdd(RInt(recs[i].reward),
                           RMul(RMul(c.discount_factor, RInt(v_next)), mask)),
                      RInt(recs[i].state_val))
    IN  RAdd(delta, RMul(RMul(RMul(c.discount_factor, c.gae_lambda), mask), adv_next))

\* return[t] = advantage[t] + v[t]
GaeReturn(adv, v) == RAdd(adv, RInt(v))

\* learn(): self.trajectory.calc_advantages(self.config, last_state_vals)
LearnCalcAdvantages ==
    /\ gae.pc = "bootstrapped"
    /\ LET adv == [i \in 1..Len(gae.recs) |->
                     GaeAdvantage(gae.recs, gae.last_state_vals, gae.num_envs, gae.cfg, i)]
       IN  gae' = [gae EXCEPT
                     !.pc = "computed",
                     !.adv = adv,
                     !.ret = [i \in 1..Len(gae.recs) |-> GaeReturn(adv[i], gae.recs[i].state_val)]]
    /\ UNCHANGED <<ppgVars, cpVars, accVars, pr, gs, stats>>

NextGae ==
    \/ LearnBootstrap
    \/ LearnCalcAdvantages

SpecGae == InitGae /\ [][NextGae]_vars

\* the records of environment e, in the order of their steps
EnvRecs(recs, ne, e) == [t \in 1..(Len(recs) \div ne) |-> recs[(t - 1) * ne + e]]

\* C15: at every step t that ended an episode advantage[t] = r[t] - v[t] and
\* return[t] = r[t], and the advantages and returns of the environment's steps up
\* to t are those of the buffer cut off behind t, whatever the bootstrap values:
\* no reward, value or bootstrap value after t enters them.
C15_GaeStopsAtDone ==
    gae.pc = "computed" =>
        \A i \in 1..Len(gae.recs) :
            gae.recs[i].done =>
                /\ gae.adv[i] = RInt(gae.recs[i].reward - gae.recs[i].state_val)
                /\ gae.ret[i] = RInt(gae.recs[i].reward)
                /\ \A b \in {0, 7} : \A j \in 1..i :
                      EnvOf(j, gae.num_envs) = EnvOf(i, gae.num_envs) =>
                          LET cut == GaeAdvantage(SubSeq(gae.recs, 1, i),
                                                  [e \in 1..gae.num_envs |-> b],
                                                  gae.num_envs, gae.cfg, j)
                          IN  /\ gae.adv[j] = cut
                              /\ gae.ret[j] = GaeReturn(cut, gae.recs[j].state_val)

\* the advantages of two environments of two steps each are computed; the first
\* environment's episode ended at its first step and went on with a reward and a
\* value behind it
C15_Witness ==
    /\ gae.pc = "computed"
    /\ gae.num_envs = 2
    /\ Len(gae.recs) = 4
    /\ gae.recs[1].done
    /\ ~gae.recs[3].done
    /\ gae.recs[3].state_val = 1
    /\ gae.cfg.discount_factor = <<1, 2>>
    /\ gae.last_state_vals = <<3, 1>>

MaxTopK == 2            \* top_k handed to ParticleReward ranges over 1..MaxTopK
MaxRewardBatch == 2     \* states handed to calculate_reward: 1..MaxRewardBatch
MaxRewardCalls == 2     \* calls of calculate_reward on one ParticleReward

\* a float is zero, positive and finite, +infinity or NaN; no distance, running
\* mean or quotient of the computation is negative
Floats == {"zero", "pos", "inf", "nan"}

Finite(x) == x \in {"zero", "pos"}

\* NaN sorts behind +infinity in topk
FloatRank(x) == CASE x = "zero" -> 0 [] x = "pos" -> 1 [] x = "inf" -> 2 [] x = "nan" -> 3

\* the mean of a tensor with the entries xs (a non-empty set of floats)
MeanOf(xs) ==
    IF "nan" \in xs THEN "nan"
    ELSE IF "inf" \in xs THEN "inf"
    ELSE IF "pos" \in xs THEN "pos"
    ELSE "zero"

\* x / m
Quotient(x, m) ==
    IF x = "nan" \/ m = "nan" THEN "nan"
    ELSE IF m = "zero" THEN (IF x = "zero" THEN "nan" ELSE "inf")
    ELSE IF m = "pos" THEN x
    ELSE IF x = "inf" THEN "nan" ELSE "zero"

\* T.log(self.c + x) with c = 1
LogOnePlus(x) == x

\* T.norm(states.unsqueeze(1) - states.unsqueeze(0), dim=-1) of n states: fin[i] says
\* whether state i is finite; a state at distance NaN of itself is not, and its
\* distance of any other state is +infinity or NaN; between[<<i, j>>] is the distance
\* of the states i < j, which overflows to +infinity for finite states far apart
PairwiseNorms(n, fin, between) ==
    [i \in 1..n |-> [j \in 1..n |->
        IF i = j THEN (IF fin[i] THEN "zero" ELSE "nan")
        ELSE IF i < j THEN between[<<i, j>>] ELSE between[<<j, i>>]]]

\* the distance matrices of batches of n states
ParticleVolumes(n) ==
    LET pairs == {q \in (1..n) \X (1..n) : q[1] < q[2]}
        distances(fin) == { b \in [pairs -> Floats] :
                              \A q \in pairs :
                                  IF fin[q[1]] /\ fin[q[2]]
                                    THEN b[q] \in {"zero", "pos", "inf"}
                                    ELSE b[q] \in {"inf", "nan"} }
    IN  UNION { { PairwiseNorms(n, fin, between) : between \in distances(fin) } :
                fin \in [1..n -> BOOLEAN] }

\* row.topk(k, sorted=True, largest=False): the k smallest entries, in order
RECURSIVE TopK(_, _)
TopK(row, k) ==
    IF k = 0 THEN <<>>
    ELSE LET m == CHOOSE i \in 1..Len(row) :
                     \A j \in 1..Len(row) : FloatRank(row[i]) <= FloatRank(row[j])
             rest == [j \in 1..(Len(row) - 1) |-> IF j < m THEN row[j] ELSE row[j + 1]]
         IN  <<row[m]>> \o TopK(rest, k - 1)

\* update_mean_estimate: self.mean + (x.mean(dim=0) - self.mean) * batch_size /
\* total_samples_done; +infinity minus +infinity is NaN
UpdateMeanEstimate(mean, batch_mean) ==
    IF mean = "nan" \/ batch_mean = "nan" THEN "nan"
    ELSE IF mean = "inf" THEN "nan"
    ELSE IF batch_mean = "inf" THEN "inf"
    ELSE IF mean = "pos" \/ batch_mean = "pos" THEN "pos"
    ELSE "zero"

\* if not T.isfinite(top_k_rewards).all():
\*     top_k_rewards[top_k_rewards.isnan()] = 0
ReplaceNan(knn) ==
    IF \E i \in 1..Len(knn) : ~Finite(knn[i])
      THEN [i \in 1..Len(knn) |-> IF knn[i] = "nan" THEN "zero" ELSE knn[i]]
      ELSE knn

\* ParticleReward(top_k): mean 0.0, var 1.0, samples_done 0
InitReward ==
    /\ PpgIdle
    /\ CpIdle
    /\ AccIdle
    /\ gae = GaeIdle
    /\ gs = GsIdle
    /\ stats = RsNew
    /\ \E k \in 1..MaxTopK : pr = [PrNone EXCEPT !.pc = "constructed", !.top_k = k]

\* calculate_reward(states, normalize)
CalculateReward ==
    /\ pr.pc \in {"constructed", "returned"}
    /\ pr.calls < MaxRewardCalls
    /\ \E n \in 1..MaxRewardBatch, normalize \in BOOLEAN :
        \E particle_volumes \in ParticleVolumes(n) :
            LET top_k == IF pr.top_k > n THEN n ELSE pr.top_k
                top_k_rewards == [i \in 1..n |-> TopK(particle_volumes[i], top_k)]
                batch_mean == MeanOf({top_k_rewards[i][j] : i \in 1..n, j \in 1..top_k})
                mean == IF normalize THEN UpdateMeanEstimate(pr.mean, batch_mean) ELSE pr.mean
                normalized == [i \in 1..n |-> [j \in 1..top_k |->
                                 IF normalize THEN Quotient(top_k_rewards[i][j], mean)
                                              ELSE top_k_rewards[i][j]]]
                knn == [i \in 1..n |-> MeanOf({normalized[i][j] : j \in 1..top_k})]
                replaced == ReplaceNan(knn)
            IN  pr' = [pr EXCEPT
                         !.pc = "returned",
                         !.mean = mean,
                         !.samples_done = IF normalize THEN @ + n * top_k ELSE @,
                         !.calls = @ + 1,
                         !.normalize = normalize,
                         !.particle_volumes = particle_volumes,
                         !.knn = knn,
                         !.out = [i \in 1..n |-> LogOnePlus(replaced[i])]]
    /\ UNCHANGED <<ppgVars, cpVars, accVars, gae, gs, stats>>

NextReward == CalculateReward

SpecReward == InitReward /\ [][NextReward]_vars

\* C17 as stated: every entry of the per-state mean k-NN distance that is not
\* finite is replaced by zero before the logarithm, and every returned reward is
\* finite.
C17_NonFiniteReplacedByZero ==
    pr.pc = "returned" =>
        \A i \in 1..Len(pr.knn) :
            /\ ~Finite(pr.knn[i]) => pr.out[i] = LogOnePlus("zero")
            /\ Finite(pr.out[i])

\* ------------------------------------------------- direct gradient steps
MaxStepCalls == 2       \* gradient steps on one network: 1..MaxStepCalls
MaxGradNorm == 3        \* norm of the gradient a backward pass produces: 1..MaxGradNorm
MaxCeiling == 2         \* the configured gradient-norm ceiling: None or 1..MaxCeiling

\* do_gradient_step of utils/network_utils.py, and the steps written out in
\* train_policy_net and train_critic of agent.py
StepVariants == {"do_gradient_step", "train_policy_net", "train_critic"}

\* do_gradient_step: clear_grad(network), objective.backward(),
\* clip_grad_norm_ if config['grad_norm'] is not None, optimizer.step()
DoGradientStepOps(has_ceiling) ==
    IF has_ceiling THEN <<"clear", "backward", "clip", "step">>
                   ELSE <<"clear", "backward", "step">>

\* train_policy_net, train_critic: opt.zero_grad(), clip_grad_norm_(parameters,
\* self.grad_norm), backward(), opt.step()
AgentStepOps == <<"clear", "clip", "backward", "step">>

\* the statements of the variant in their order
StepOps(g) ==
    IF g.variant = "do_gradient_step" THEN DoGradientStepOps(g.has_ceiling) ELSE AgentStepOps

\* the statement the call in progress executes next
NextOp ==
    IF gs.pc = "call" /\ Len(gs.trace) < Len(StepOps(gs))
      THEN StepOps(gs)[Len(gs.trace) + 1]
      ELSE "none"

\* clip_grad_norm_(parameters, max_norm): gradients of a larger total norm are
\* scaled down to max_norm
ClipGradNorm(norm, max_norm) == IF norm > max_norm THEN max_norm ELSE norm

\* a network, its optimizer and the gradient-norm ceiling of the configuration
InitStep ==
    /\ PpgIdle
    /\ CpIdle
    /\ AccIdle
    /\ gae = GaeIdle
    /\ pr = PrNone
    /\ stats = RsNew
    /\ \E v \in StepVariants, c \in 0..MaxCeiling :
        gs = [GsIdle EXCEPT !.variant = v, !.has_ceiling = (c > 0), !.ceiling = c,
                            !.pc = "ready"]

\* the step is called with the objective of the next mini-batch
StepCall ==
    /\ gs.pc \in {"ready", "returned"}
    /\ gs.calls < MaxStepCalls
    /\ \E g \in 1..MaxGradNorm :
        gs' = [gs EXCEPT !.pc = "call", !.calls = @ + 1, !.produced = g, !.trace = <<>>]
    /\ UNCHANGED <<ppgVars, cpVars, accVars, gae, pr, stats>>

\* clear_grad(network) / opt.zero_grad()
StepClear ==
    /\ NextOp = "clear"
    /\ gs' = [gs EXCEPT !.grad = [from |-> {}, norm |-> 0], !.trace = Append(@, "clear")]
    /\ UNCHANGED <<ppgVars, cpVars, accVars, gae, pr, stats>>

\* objective.backward(): the gradient of this mini-batch is added to .grad
StepBackward ==
    /\ NextOp = "backward"
    /\ gs' = [gs EXCEPT !.grad = [from |-> @.from \cup {gs.calls}, norm |-> @.norm + gs.produced],
                        !.trace = Append(@, "backward")]
    /\ UNCHANGED <<ppgVars, cpVars, accVars, gae, pr, stats>>

\* clip_grad_norm_(network.parameters(), grad_norm): float(None) raises TypeError
StepClip ==
    /\ NextOp = "clip"
    /\ gs' = IF gs.has_ceiling
               THEN [gs EXCEPT !.grad.norm = ClipGradNorm(@, gs.ceiling),
                               !.trace = Append(@, "clip")]
               ELSE [gs EXCEPT !.pc = "failed"]
    /\ UNCHANGED <<ppgVars, cpVars, accVars, gae, pr, stats>>

\* optimizer.step(): the parameters move by what .grad holds
StepOptimizer ==
    /\ NextOp = "step"
    /\ gs' = [gs EXCEPT !.applied = gs.grad, !.opt = @ + 1, !.trace = Append(@, "step")]
    /\ UNCHANGED <<ppgVars, cpVars, accVars, gae, pr, stats>>

\* the call returns
StepReturn ==
    /\ gs.pc = "call"
    /\ Len(gs.trace) = Len(StepOps(gs))
    /\ gs' = [gs EXCEPT !.pc = "returned"]
    /\ UNCHANGED <<ppgVars, cpVars, accVars, gae, pr, stats>>

NextStep ==
    \/ StepCall
    \/ StepClear
    \/ StepBackward
    \/ StepClip
    \/ StepOptimizer
    \/ StepReturn

SpecStep == InitStep /\ [][NextStep]_vars

\* C22 as stated: every direct gradient step runs clear gradients, backward pass,
\* clipping (left out when the ceiling is None), optimizer step in this order, so
\* the step applies this mini-batch's gradient alone, clipped to the ceiling, every
\* call takes exactly one optimizer step, and no call fails.
C22_DirectStepOrder ==
    /\ gs.pc # "failed"
    /\ gs.pc = "returned"
          => /\ gs.trace = IF gs.has_ceiling THEN <<"clear", "backward", "clip", "step">>
                                             ELSE <<"clear", "backward", "step">>
             /\ gs.applied.from = {gs.calls}
             /\ gs.applied.norm = IF gs.has_ceiling THEN ClipGradNorm(gs.produced, gs.ceiling)
                                                    ELSE gs.produced
             /\ gs.opt = gs.calls

\* ------------------------- pretrain/reward.py: the running estimates
MaxStatBatch == 2       \* samples of one update_estimates call: 1..MaxStatBatch
MaxStatCalls == 3       \* update_estimates calls on one ParticleReward
MaxSample == 2          \* a sample is one of 0..MaxSample

\* a float that is not a number, as x.var() of a single sample is
Nan == <<0, 0>>

IsNan(r) == r[2] = 0

RECURSIVE SumSeq(_)
SumSeq(xs) == IF xs = <<>> THEN 0 ELSE Head(xs) + SumSeq(Tail(xs))

\* x.mean(dim=0)
BatchMean(x) == RNorm(<<SumSeq(x), Len(x)>>)

\* the sum over the samples of the squared deviation from their mean
SquaredDeviations(x) ==
    RNorm(<<Len(x) * SumSeq([i \in 1..Len(x) |-> x[i] * x[i]]) - SumSeq(x) * SumSeq(x), Len(x)>>)

\* x.var(dim=0): the unbiased estimate, the squared deviations over n - 1, which
\* is NaN for a single sample
BatchVar(x) == IF Len(x) = 1 THEN Nan ELSE RMul(SquaredDeviations(x), <<1, Len(x) - 1>>)

\* update_mean_estimate: self.mean + difference * batch_size / total_samples_done
MeanEstimate(mean, difference, batch_size, total_samples_done) ==
    RAdd(mean, RMul(RMul(difference, RInt(batch_size)), <<1, total_samples_done>>))

\* update_var_estimate: (self.var * self.samples_done + batch_var * batch_size
\* + difference^2 * batch_size * self.samples_done / total_samples_done)
\* / total_samples_done; NaN propagates
VarEstimate(var, samples_done, difference, batch_var, batch_size, total_samples_done) ==
    IF IsNan(var) \/ IsNan(batch_var)
      THEN Nan
      ELSE LET var_so_far == RMul(var, RInt(samples_done))
               var_batch == RMul(batch_var, RInt(batch_size))
               scaled_difference == RMul(RMul(difference, difference),
                                         <<batch_size * samples_done, total_samples_done>>)
               combined_vars == RAdd(RAdd(var_so_far, var_batch), scaled_difference)
           IN RMul(combined_vars, <<1, total_samples_done>>)

\* update_estimates(x)
UpdateEstimates(e, x) ==
    LET batch_size == Len(x)
        difference == RSub(BatchMean(x), e.mean)
        total_samples_done == e.samples_done + batch_size
        batch_var == BatchVar(x)
    IN [e EXCEPT
          !.mean = MeanEstimate(e.mean, difference, batch_size, total_samples_done),
          !.var = VarEstimate(e.var, e.samples_done, difference, batch_var, batch_size,
                              total_samples_done),
          !.samples_done = total_samples_done,
          !.seen = @ \o x,
          !.calls = @ + 1]

\* a new ParticleReward
InitStats ==
    /\ PpgIdle
    /\ CpIdle
    /\ AccIdle
    /\ gae = GaeIdle
    /\ pr = PrNone
    /\ gs = GsIdle
    /\ stats = RsNew

\* update_estimates is called on a batch that is not empty
UpdateEstimatesCall ==
    /\ stats.calls < MaxStatCalls
    /\ \E n \in 1..MaxStatBatch :
        \E x \in [1..n -> 0..MaxSample] : stats' = UpdateEstimates(stats, x)
    /\ UNCHANGED <<ppgVars, cpVars, accVars, gae, pr, gs>>

NextStats == UpdateEstimatesCall

SpecStats == InitStats /\ [][NextStats]_vars

\* the variance of the samples with the squared deviations divided by n - ddof
VarianceOf(x, ddof) ==
    IF Len(x) - ddof = 0 THEN Nan ELSE RMul(SquaredDeviations(x), <<1, Len(x) - ddof>>)

\* C24 as stated: after any sequence of update_estimates calls on non-empty
\* batches, samples_done is the number of samples seen and mean and var are the
\* mean and the variance (of the population or of the sample) of the concatenation
\* of all batches, whatever the split into batches was.
C24_StatisticsIndependentOfBatching ==
    stats.calls > 0
        => /\ stats.samples_done = Len(stats.seen)
           /\ stats.mean = BatchMean(stats.seen)
           /\ stats.var = VarianceOf(stats.seen, 0) \/ stats.var = VarianceOf(stats.seen, 1)

====
